---- MODULE Spec2Model ----
(***************************************************************************)
(* Model of kalshi-cli.py: ContractReader (snapshot fetch, incremental     *)
(* merge of stream events into current_data, receive loop, reconnect       *)
(* loop).  Python dicts are functions whose DOMAIN is the set of keys      *)
(* present; Python None is the value None.  Opaque strings carried in      *)
(* title/status are drawn from the same small value set as the prices.     *)
(***************************************************************************)
EXTENDS Integers, Sequences, FiniteSets, TLC

\* ------------------------------------------------------------------ bounds
MaxVal == 2
MaxIter == 2

\* --------------------------------------------------------------- constants
None == -1
DefaultVolume == 0
ReconnectDelay == 5
SpinnerFrames == 4
NumChannels == 3

SPINNER_FRAMES == <<"|", "/", "-", "\\">>

get_spinner_frame(index) == SPINNER_FRAMES[(index % SpinnerFrames) + 1]

contract_id == "ID"
OtherId == "OTHER"
Absent == "<absent>"

Vals == 1..MaxVal

\* ------------------------------------------------------------ dict helpers
EmptyDict == [k \in {} |-> None]

Has(d, k) == k \in DOMAIN d

Get(d, k) == IF k \in DOMAIN d THEN d[k] ELSE None

GetOr(d, k, default) == IF k \in DOMAIN d THEN d[k] ELSE default

Put(d, k, v) == [x \in (DOMAIN d) \cup {k} |-> IF x = k THEN v ELSE d[x]]

\* d with every key of keys that src carries overwritten from src, in order
RECURSIVE CopyPresent(_, _, _)
CopyPresent(d, src, keys) ==
    IF keys = <<>> THEN d
    ELSE LET k == Head(keys)
             d1 == IF Has(src, k) THEN Put(d, k, src[k]) ELSE d
         IN CopyPresent(d1, src, Tail(keys))

\* ------------------------------------------------------------------- keys
SnapshotKeys == <<"title", "subtitle", "status", "yes_bid", "yes_ask",
                  "no_bid", "no_ask", "last_price", "volume", "open_interest">>

TickerKeys == <<"yes_bid", "yes_ask", "no_bid", "no_ask", "last_price",
                "volume", "open_interest">>

MarketKeys == <<"title", "status", "yes_bid", "yes_ask", "volume", "open_interest">>

Range(s) == {s[i] : i \in 1..Len(s)}

Fields == Range(SnapshotKeys)

\* ----------------------------------------------------------------- frames
\* An inbound websocket frame.  kind: "badjson" (json.loads raises
\* JSONDecodeError), "nonobject" (valid JSON that is not an object) or
\* "object".  For an object: type is msg["type"] (Absent when the key is
\* missing); msg is "absent" (no "msg" key), "null" ("msg" is not an object)
\* or "dict"; the remaining components are the keys of the "msg" object that
\* update_from_message reads: the two identifier keys, side, the scalar keys
\* (data) and the two order-book level lists.
Obj(t, m, mt, tk, s, d, y, n) ==
    [kind |-> "object", type |-> t, msg |-> m, market_ticker |-> mt,
     ticker |-> tk, side |-> s, data |-> d, yes |-> y, no |-> n]

Raw(k) ==
    [kind |-> k, type |-> Absent, msg |-> "absent", market_ticker |-> Absent,
     ticker |-> Absent, side |-> Absent, data |-> EmptyDict, yes |-> <<>>, no |-> <<>>]

NoFrame == Raw("none")

Singles(keys, v) == {[x \in {k} |-> v] : k \in Range(keys)}

Pairs(k1, vals1, k2, vals2) ==
    {[x \in {k1, k2} |-> IF x = k1 THEN v ELSE w] : v \in vals1, w \in vals2}

\* scalar payloads per event type: nothing, one key, or two keys
TickerData ==
    {EmptyDict} \cup Singles(TickerKeys, MaxVal) \cup Pairs("yes_bid", Vals, "volume", {MaxVal})

MarketData == {EmptyDict} \cup Singles(MarketKeys, MaxVal)

TradeData ==
    {EmptyDict} \cup Singles(<<"volume">>, MaxVal)
    \cup Pairs("yes_price", Vals, "volume", {MaxVal})
    \cup {[x \in {"yes_price"} |-> v] : v \in Vals}

\* <<side, payload>> of an orderbook_delta
DeltaData ==
    {<<s, [x \in {"price"} |-> v]>> : s \in {"yes", "no"}, v \in Vals}
    \cup {<<"yes", EmptyDict>>, <<Absent, [x \in {"price"} |-> MaxVal]>>}

\* an order-book side: no levels, one well-formed level [price, quantity],
\* or one entry that is an empty list
Levels == {<<>>, <<<<>>>>} \cup {<<<<v, 1>>>> : v \in Vals}

\* events addressed to the bound contract, with the identifier in the key
\* that the venue uses for the type
Matching ==
         {Obj("ticker", "dict", contract_id, Absent, Absent, d, <<>>, <<>>) : d \in TickerData}
    \cup {Obj("market", "dict", Absent, contract_id, Absent, d, <<>>, <<>>) : d \in MarketData}
    \cup {Obj("trade", "dict", contract_id, Absent, Absent, d, <<>>, <<>>) : d \in TradeData}
    \cup {Obj("orderbook_delta", "dict", contract_id, Absent, sd[1], sd[2], <<>>, <<>>) :
            sd \in DeltaData}
    \cup {Obj("orderbook_snapshot", "dict", contract_id, Absent, Absent, EmptyDict, y, <<>>) :
            y \in Levels}
    \cup {Obj("orderbook_snapshot", "dict", contract_id, Absent, Absent, EmptyDict, y, n) :
            y \in {<<>>, <<<<MaxVal, 1>>>>}, n \in {<<<<>>>>, <<<<1, 1>>>>}}
    \cup {Obj(t, "dict", contract_id, contract_id, "yes",
              [x \in {"yes_bid", "price", "yes_price"} |-> MaxVal], <<<<MaxVal, 1>>>>, <<>>) :
            t \in {"subscribed", Absent}}

\* events for some other contract: the type's identifier key is missing, or
\* names another contract while the other identifier key names the bound one
ForeignIds == {<<Absent, Absent>>, <<OtherId, contract_id>>, <<contract_id, OtherId>>}

Probe == [x \in {"yes_bid", "volume", "price", "yes_price", "title"} |-> MaxVal]

IdKey(t) == IF t = "market" THEN 2 ELSE 1

EventTypes == {"ticker", "market", "trade", "orderbook_delta", "orderbook_snapshot"}

ForeignOf(t) ==
    {Obj(t, "dict", i[1], i[2], "yes", Probe, <<<<MaxVal, 1>>>>, <<<<MaxVal, 1>>>>) :
        i \in {j \in ForeignIds : j[IdKey(t)] # contract_id}}

Foreign == UNION {ForeignOf(t) : t \in EventTypes}

\* objects without a usable "msg"
NoPayload ==
    {Obj(t, "null", Absent, Absent, Absent, EmptyDict, <<>>, <<>>) :
        t \in EventTypes \cup {"subscribed"}}
    \cup {Obj("ticker", "absent", Absent, Absent, Absent, EmptyDict, <<>>, <<>>)}

Frames == {Raw("badjson"), Raw("nonobject")} \cup Matching \cup Foreign \cup NoPayload

\* -------------------------------------------------- update_from_message
\* The result of a call: the dict it leaves behind and whether it raised.
Ok(d) == [data |-> d, raised |-> FALSE]

Raise(d) == [data |-> d, raised |-> TRUE]

\* yes_bids[0][0] / no_bids[0][0]: IndexError on an empty entry
SnapshotSide(r, key, levels) ==
    IF r.raised \/ levels = <<>> THEN r
    ELSE IF Len(levels[1]) = 0 THEN Raise(r.data)
    ELSE Ok(Put(r.data, key, levels[1][1]))

UpdateOrderbookSnapshot(d, m) ==
    IF m.market_ticker = contract_id
    THEN SnapshotSide(SnapshotSide(Ok(d), "yes_bid", m.yes), "no_bid", m.no)
    ELSE Ok(d)

\* variant: a delta also moves the ask of the opposite side
UpdateOrderbookDelta_WithAsk(d, m) ==
    IF m.market_ticker = contract_id /\ Has(m.data, "price")
    THEN IF m.side = "yes"
         THEN Ok(Put(Put(d, "yes_bid", Get(m.data, "price")), "no_ask", Get(m.data, "price")))
         ELSE IF m.side = "no"
         THEN Ok(Put(Put(d, "no_bid", Get(m.data, "price")), "yes_ask", Get(m.data, "price")))
         ELSE Ok(d)
    ELSE Ok(d)

UpdateOrderbookDelta(d, m) ==
    IF m.market_ticker = contract_id /\ Has(m.data, "price")
    THEN IF m.side = "yes" THEN Ok(Put(d, "yes_bid", Get(m.data, "price")))
         ELSE IF m.side = "no" THEN Ok(Put(d, "no_bid", Get(m.data, "price")))
         ELSE Ok(d)
    ELSE Ok(d)

\* UpdateTicker without the identifier test
UpdateTicker_AnyContract(d, m) == Ok(CopyPresent(d, m.data, TickerKeys))

UpdateTicker(d, m) ==
    IF m.market_ticker = contract_id
    THEN Ok(CopyPresent(d, m.data, TickerKeys))
    ELSE Ok(d)

\* UpdateTrade adding the traded volume to the stored one
UpdateTrade_Accumulate(d, m) ==
    IF m.market_ticker = contract_id
    THEN LET d1 == Put(d, "last_price", Get(m.data, "yes_price"))
         IN Ok(Put(d1, "volume",
                   GetOr(d1, "volume", DefaultVolume) + GetOr(m.data, "volume", DefaultVolume)))
    ELSE Ok(d)

UpdateTrade(d, m) ==
    IF m.market_ticker = contract_id
    THEN LET d1 == Put(d, "last_price", Get(m.data, "yes_price"))
         IN Ok(Put(d1, "volume",
                   GetOr(m.data, "volume", GetOr(d1, "volume", DefaultVolume))))
    ELSE Ok(d)

UpdateMarket(d, m) ==
    IF m.ticker = contract_id
    THEN Ok(CopyPresent(d, m.data, MarketKeys))
    ELSE Ok(d)

\* variant: a type tag that is not recognized is merged as a ticker
update_from_message_DefaultTicker(d, m) ==
    IF m.kind # "object" THEN Raise(d)
    ELSE IF m.type \notin EventTypes THEN UpdateTicker(d, m)
    ELSE IF m.msg = "null" THEN Raise(d)
    ELSE IF m.type = "orderbook_snapshot" THEN UpdateOrderbookSnapshot(d, m)
    ELSE IF m.type = "orderbook_delta" THEN UpdateOrderbookDelta(d, m)
    ELSE IF m.type = "ticker" THEN UpdateTicker(d, m)
    ELSE IF m.type = "trade" THEN UpdateTrade(d, m)
    ELSE UpdateMarket(d, m)

update_from_message(d, m) ==
    IF m.kind # "object" THEN Raise(d)                 \* msg.get on a non-dict
    ELSE IF m.type \notin EventTypes THEN Ok(d)
    ELSE IF m.msg = "null" THEN Raise(d)               \* data.get on a non-dict
    ELSE IF m.type = "orderbook_snapshot" THEN UpdateOrderbookSnapshot(d, m)
    ELSE IF m.type = "orderbook_delta" THEN UpdateOrderbookDelta(d, m)
    ELSE IF m.type = "ticker" THEN UpdateTicker(d, m)
    ELSE IF m.type = "trade" THEN UpdateTrade(d, m)
    ELSE UpdateMarket(d, m)

\* ---------------------------------------------------- fetch_initial_data
\* What requests.get hands back: outcome is "error" (the call raised),
\* "non200", "bad_body" (resp.json() raises or is not an object),
\* "market_null" ("market" is not an object), "no_market" (an object without
\* "market") or "ok"; market is the market object the body carries.
Response(o, mk) == [outcome |-> o, market |-> mk]

ScenarioMarket ==
    [x \in {"title", "status", "yes_bid", "yes_ask"} |-> IF x = "yes_ask" THEN MaxVal ELSE 1]

FullMarket == [x \in Fields |-> 1]

\* a market object that carries the counters but no price
CountedMarket == [x \in {"title", "status", "volume", "open_interest"} |-> 1]

\* no request made yet / the request was never sent: signing raised
NoResponse == Response("none", EmptyDict)

Unsigned == Response("unsigned", EmptyDict)

Responses ==
    {Response(o, EmptyDict) : o \in {"error", "non200", "bad_body", "market_null", "no_market"}}
    \cup {Response("non200", ScenarioMarket)}
    \cup {Response("ok", mk) : mk \in {ScenarioMarket, FullMarket, CountedMarket}}

\* variant: a field the market object lacks is stored as 0
fetch_initial_data_Defaults(d, resp) ==
    IF resp.outcome \in {"ok", "no_market"}
    THEN [k \in Fields |-> GetOr(resp.market, k, DefaultVolume)]
    ELSE d

\* the body of the try block: current_data after the call
fetch_initial_data(d, resp) ==
    IF resp.outcome \in {"ok", "no_market"}
    THEN [k \in Fields |-> Get(resp.market, k)]
    ELSE d

\* ------------------------------------------------------- display_contract
\* f"{data.get('volume', 0):,}": the ',' format raises TypeError on None,
\* and data.get returns None when the key is there and holds None
Unformattable(d, k) == Has(d, k) /\ d[k] = None

\* the dict the call draws, and whether it raised before the frame was whole
display_contract(d) ==
    IF Unformattable(d, "volume") \/ Unformattable(d, "open_interest")
    THEN Raise(d)
    ELSE Ok(d)

\* ------------------------------------------------------------------ state
VARIABLES
    pc,             \* position in run(): "start", "display", "sign", "connect",
                    \* "subscribe", "recv", "spin", "closed" (in an except
                    \* handler, before the sleep), "exit0", "exit1", "crash"
    current_data,   \* self.current_data
    spinner_index,  \* self.spinner_index
    spinner,        \* the frame on the "Press Ctrl+C to exit" line of the terminal
    displayed,      \* the dict drawn by the latest display_contract()
    subs,           \* subscribe commands sent on the open connection
    message,        \* the frame ws.recv() returned in the latest iteration
    wire,           \* a frame the venue delivers a second time (at-least-once)
    before,         \* current_data when the latest iteration began (old_data)
    changed,        \* self.current_data != old_data in the latest iteration
    rendered,       \* the latest iteration called display_contract()
    redelivered,    \* message is the second delivery of the previous frame
    iter,           \* receive-loop iterations that ran to their end
    expected,       \* per field, the value last carried for it
    fresh_store,    \* the snapshot left current_data as constructed
    snapshot,       \* what the REST call came back with, until the first
                    \* connection attempt
    sign_failed,    \* sign_request raised inside the reconnect loop
    headers,        \* the auth headers built last: what they sign and whether
                    \* a request or a connection attempt has gone out with them
    last_print,     \* what the process wrote as it ended: "" while it runs,
                    \* "sign_error" (the two lines of the signing handler),
                    \* "traceback" (an uncaught exception) or "exiting"
    closed_data,    \* current_data when the previous session closed
    waited,         \* seconds slept since the previous session closed
    trail           \* steps taken since the previous session closed

vars == <<pc, current_data, spinner_index, spinner, displayed, subs, message, wire, before,
          changed, rendered, redelivered, iter, expected, fresh_store, snapshot,
          sign_failed, last_print, closed_data, waited, trail, headers>>

NoData == [k \in {"<none>"} |-> None]

Channels == <<"ticker", "orderbook_delta", "trade">>

RestPath == "/trade-api/v2/markets/ID"

WsPath == "/trade-api/ws/v2"

\* KALSHI-ACCESS-SIGNATURE / -TIMESTAMP of a timestamp read from the clock
\* now and of sign_request(api_secret, timestamp, method, path)
Headers(method, path) == [method |-> method, path |-> path, used |-> FALSE]

NoHeaders == Headers("", "")

\* the headers went out with a request
Used(h) == [h EXCEPT !.used = TRUE]

Init ==
    /\ pc = "start"
    /\ current_data = EmptyDict
    /\ spinner_index = 0
    /\ spinner = ""
    /\ displayed = NoData
    /\ subs = <<>>
    /\ message = NoFrame
    /\ wire = <<>>
    /\ before = NoData
    /\ changed = FALSE
    /\ rendered = FALSE
    /\ redelivered = FALSE
    /\ iter = 0
    /\ expected = EmptyDict
    /\ fresh_store = TRUE
    /\ snapshot = NoResponse
    /\ sign_failed = FALSE
    /\ last_print = ""
    /\ headers = NoHeaders
    /\ closed_data = NoData
    /\ waited = 0
    /\ trail = <<>>

\* ---------------------------------------------- reference merge semantics
\* The identifier key of an event type and the fields an event carries for
\* the bound contract, as the merge table of the specification lists them.
EventId(m) == IF m.type = "market" THEN m.ticker ELSE m.market_ticker

Addressed(m) ==
    m.kind = "object" /\ m.type \in EventTypes /\ m.msg = "dict"
    /\ EventId(m) = contract_id

Restrict(d, keys) == [k \in (DOMAIN d) \cap keys |-> d[k]]

WellFormed(levels) == levels # <<>> /\ Len(levels[1]) > 0

Carried(m) ==
    IF ~Addressed(m) THEN EmptyDict
    ELSE IF m.type = "ticker" THEN Restrict(m.data, Range(TickerKeys))
    ELSE IF m.type = "market" THEN Restrict(m.data, Range(MarketKeys))
    ELSE IF m.type = "trade"
         THEN [k \in ({"last_price"} \cap (IF Has(m.data, "yes_price") THEN {"last_price"} ELSE {}))
                     \cup ({"volume"} \cap DOMAIN m.data)
                 |-> IF k = "last_price" THEN m.data["yes_price"] ELSE m.data["volume"]]
    ELSE IF m.type = "orderbook_delta"
         THEN IF Has(m.data, "price") /\ m.side \in {"yes", "no"}
              THEN [k \in {IF m.side = "yes" THEN "yes_bid" ELSE "no_bid"} |-> m.data["price"]]
              ELSE EmptyDict
    ELSE [k \in (IF WellFormed(m.yes) THEN {"yes_bid"} ELSE {})
                \cup (IF WellFormed(m.no) THEN {"no_bid"} ELSE {})
            |-> IF k = "yes_bid" THEN m.yes[1][1] ELSE m.no[1][1]]

Overlay(d, e) == [k \in (DOMAIN d) \cup (DOMAIN e) |-> IF k \in DOMAIN e THEN e[k] ELSE d[k]]

\* ---------------------------------------------------------------- actions
loop == <<message, before, changed, rendered, redelivered>>

\* the session is over: an except handler of run() has the exception
Close(d) ==
    /\ pc' = "closed"
    /\ subs' = <<>>
    /\ wire' = <<>>
    /\ closed_data' = d
    /\ waited' = 0
    /\ trail' = <<>>

\* sign_request raises in fetch_initial_data, outside its try block
FetchSignFail ==
    /\ pc = "start"
    /\ pc' = "crash"
    /\ snapshot' = Unsigned
    /\ last_print' = "traceback"
    /\ UNCHANGED <<current_data, spinner_index, spinner, displayed, subs, wire, loop, iter,
                   expected, fresh_store, sign_failed, closed_data, waited, trail, headers>>

FetchInitialData ==
    /\ pc = "start"
    /\ \E resp \in Responses :
         /\ current_data' = fetch_initial_data(current_data, resp)
         /\ snapshot' = resp
    /\ expected' = current_data'
    /\ fresh_store' = (current_data' = EmptyDict)
    /\ headers' = Used(Headers("GET", RestPath))
    /\ pc' = "display"
    /\ UNCHANGED <<spinner_index, spinner, displayed, subs, wire, loop, iter, sign_failed, last_print,
                   closed_data, waited, trail>>

\* the display_contract() call that follows the snapshot
DisplayContract ==
    /\ pc = "display"
    /\ IF display_contract(current_data).raised
       THEN \* nothing in run() or main() catches it
            /\ pc' = "crash"
            /\ displayed' = displayed
            /\ spinner' = spinner
            /\ last_print' = "traceback"
       ELSE /\ pc' = "sign"
            /\ displayed' = current_data
            /\ spinner' = get_spinner_frame(spinner_index)
            /\ last_print' = last_print
    /\ UNCHANGED <<current_data, spinner_index, subs, wire, loop, iter, expected,
                   fresh_store, snapshot, sign_failed, closed_data, waited, trail, headers>>

\* variant: headers once built for the streaming path are kept for later turns
SignOk_Cached ==
    /\ pc = "sign"
    /\ pc' = "connect"
    /\ headers' = IF headers.path = WsPath THEN headers ELSE Headers("GET", WsPath)
    /\ snapshot' = NoResponse
    /\ trail' = Append(trail, "sign")
    /\ UNCHANGED <<current_data, spinner_index, spinner, displayed, subs, wire, loop, iter,
                   expected, fresh_store, sign_failed, last_print, closed_data, waited>>

SignOk ==
    /\ pc = "sign"
    /\ pc' = "connect"
    /\ headers' = Headers("GET", WsPath)
    /\ snapshot' = NoResponse
    /\ trail' = Append(trail, "sign")
    /\ UNCHANGED <<current_data, spinner_index, spinner, displayed, subs, wire, loop, iter,
                   expected, fresh_store, sign_failed, last_print, closed_data, waited>>

\* variant: the signing error reaches the reconnect handlers
SignFail_Caught ==
    /\ pc = "sign"
    /\ sign_failed' = TRUE
    /\ snapshot' = NoResponse
    /\ Close(current_data)
    /\ UNCHANGED <<current_data, spinner_index, spinner, displayed, loop, iter, expected,
                   fresh_store, last_print, headers>>

\* sign_request raises: the inner handler prints and calls sys.exit(1)
SignFail ==
    /\ pc = "sign"
    /\ pc' = "exit1"
    /\ sign_failed' = TRUE
    /\ last_print' = "sign_error"
    /\ snapshot' = NoResponse
    /\ UNCHANGED <<current_data, spinner_index, spinner, displayed, subs, wire, loop, iter,
                   expected, fresh_store, closed_data, waited, trail, headers>>

ConnectOk ==
    /\ pc = "connect"
    /\ pc' = "subscribe"
    /\ headers' = Used(headers)
    /\ subs' = <<>>
    /\ trail' = Append(trail, "connect")
    /\ UNCHANGED <<current_data, spinner_index, spinner, displayed, wire, loop, iter, expected,
                   fresh_store, snapshot, sign_failed, last_print, closed_data, waited>>

ConnectFail ==
    /\ pc = "connect"
    /\ headers' = Used(headers)
    /\ Close(current_data)
    /\ UNCHANGED <<current_data, spinner_index, spinner, displayed, loop, iter, expected,
                   fresh_store, snapshot, sign_failed, last_print>>

\* variant: every command carries the request id 1
SubscribeSend_SameId ==
    /\ pc = "subscribe"
    /\ subs' = Append(subs, [id |-> 1, channel |-> Channels[Len(subs) + 1],
                             market_ticker |-> contract_id])
    /\ pc' = IF Len(subs') = NumChannels THEN "recv" ELSE "subscribe"
    /\ trail' = Append(trail, "subscribe")
    /\ UNCHANGED <<current_data, spinner_index, spinner, displayed, wire, loop, iter,
                   expected, fresh_store, snapshot, sign_failed, last_print,
                   closed_data, waited, headers>>

\* one ws.send of subscribe(); after the last one run() waits in ws.recv()
SubscribeSend ==
    /\ pc = "subscribe"
    /\ subs' = Append(subs, [id |-> Len(subs) + 1, channel |-> Channels[Len(subs) + 1],
                             market_ticker |-> contract_id])
    /\ pc' = IF Len(subs') = NumChannels THEN "recv" ELSE "subscribe"
    /\ trail' = Append(trail, "subscribe")
    /\ UNCHANGED <<current_data, spinner_index, spinner, displayed, wire, loop, iter, expected,
                   fresh_store, snapshot, sign_failed, last_print, closed_data, waited, headers>>

SubscribeFail ==
    /\ pc = "subscribe"
    /\ Close(current_data)
    /\ UNCHANGED <<current_data, spinner_index, spinner, displayed, loop, iter, expected,
                   fresh_store, snapshot, sign_failed, last_print, headers>>

\* the first iteration of a session forgets the bookkeeping of the reconnect
Listening ==
    /\ closed_data' = NoData
    /\ waited' = 0
    /\ trail' = <<>>

\* ws.recv() returns frame f: json.loads, old_data, update_from_message, the
\* comparison and display_contract, up to the end of the try block
Handle(f) ==
    LET old_data == current_data
        r == update_from_message(current_data, f)
    IN /\ message' = f
       /\ before' = old_data
       /\ redelivered' = (wire # <<>>)
       /\ expected' = Overlay(expected, Carried(f))
       /\ IF f.kind = "badjson"
          THEN \* except json.JSONDecodeError: continue
               /\ pc' = "recv"
               /\ current_data' = current_data
               /\ changed' = FALSE
               /\ rendered' = FALSE
               /\ displayed' = displayed
               /\ spinner' = spinner
               /\ iter' = iter + 1
               /\ wire' = <<>>
               /\ subs' = subs
               /\ Listening
          ELSE IF r.raised
          THEN \* the exception leaves both loops: except Exception
               /\ current_data' = r.data
               /\ changed' = FALSE
               /\ rendered' = FALSE
               /\ displayed' = displayed
               /\ spinner' = spinner
               /\ iter' = iter
               /\ Close(r.data)
          ELSE IF r.data # old_data /\ display_contract(r.data).raised
          THEN \* display_contract raises inside the try: except Exception
               /\ current_data' = r.data
               /\ changed' = TRUE
               /\ rendered' = FALSE
               /\ displayed' = displayed
               /\ spinner' = spinner
               /\ iter' = iter
               /\ Close(r.data)
          ELSE /\ pc' = "spin"
               /\ current_data' = r.data
               /\ changed' = (r.data # old_data)
               /\ rendered' = changed'
               /\ displayed' = IF changed' THEN r.data ELSE displayed
               /\ spinner' = IF changed' THEN get_spinner_frame(spinner_index) ELSE spinner
               /\ iter' = iter + 1
               /\ wire' = <<>>
               /\ subs' = subs
               /\ Listening

RecvMessage ==
    /\ pc = "recv"
    /\ iter < MaxIter
    /\ IF wire = <<>>
       THEN \E f \in Frames : Handle(f)
       ELSE Handle(Head(wire))
    /\ UNCHANGED <<spinner_index, fresh_store, snapshot, sign_failed, last_print, headers>>

\* asyncio.TimeoutError: pass
RecvTimeout ==
    /\ pc = "recv"
    /\ iter < MaxIter
    /\ pc' = "spin"
    /\ message' = NoFrame
    /\ before' = current_data
    /\ changed' = FALSE
    /\ rendered' = FALSE
    /\ redelivered' = FALSE
    /\ iter' = iter + 1
    /\ Listening
    /\ UNCHANGED <<current_data, spinner_index, spinner, displayed, subs, wire, expected,
                   fresh_store, snapshot, sign_failed, last_print, headers>>

\* ws.recv() raises ConnectionClosed or another exception
RecvClosed ==
    /\ pc = "recv"
    /\ Close(current_data)
    /\ message' = NoFrame
    /\ before' = NoData
    /\ changed' = FALSE
    /\ rendered' = FALSE
    /\ redelivered' = FALSE
    /\ UNCHANGED <<current_data, spinner_index, spinner, displayed, iter, expected,
                   fresh_store, snapshot, sign_failed, last_print, headers>>

\* variant: the indicator is redrawn only after an iteration that got a frame
Spin_OnMessageOnly ==
    /\ pc = "spin"
    /\ spinner_index' = spinner_index + 1
    /\ spinner' = IF message = NoFrame THEN spinner ELSE get_spinner_frame(spinner_index')
    /\ pc' = "recv"
    /\ \E again \in BOOLEAN :
         /\ again => message # NoFrame /\ iter < MaxIter
         /\ wire' = IF again THEN <<message>> ELSE <<>>
    /\ message' = NoFrame
    /\ before' = NoData
    /\ changed' = FALSE
    /\ rendered' = FALSE
    /\ redelivered' = FALSE
    /\ UNCHANGED <<current_data, displayed, subs, iter, expected, fresh_store,
                   snapshot, sign_failed, last_print, closed_data, waited, trail, headers>>

\* lines after the try block: the spinner advances and the loop starts over;
\* the venue may have the frame just handled in flight a second time
Spin ==
    /\ pc = "spin"
    /\ spinner_index' = spinner_index + 1
    /\ spinner' = get_spinner_frame(spinner_index')       \* print_spinner
    /\ pc' = "recv"
    /\ \E again \in BOOLEAN :
         /\ again => message # NoFrame /\ iter < MaxIter
         /\ wire' = IF again THEN <<message>> ELSE <<>>
    /\ message' = NoFrame
    /\ before' = NoData
    /\ changed' = FALSE
    /\ rendered' = FALSE
    /\ redelivered' = FALSE
    /\ UNCHANGED <<current_data, displayed, subs, iter, expected, fresh_store,
                   snapshot, sign_failed, last_print, closed_data, waited, trail, headers>>

\* variant: the next turn starts from a store as constructed
Sleep_Reset ==
    /\ pc = "closed"
    /\ pc' = "sign"
    /\ waited' = waited + ReconnectDelay
    /\ trail' = Append(trail, "sleep")
    /\ message' = NoFrame
    /\ before' = NoData
    /\ changed' = FALSE
    /\ rendered' = FALSE
    /\ redelivered' = FALSE
    /\ current_data' = EmptyDict
    /\ UNCHANGED <<spinner_index, spinner, displayed, subs, wire, iter, expected,
                   fresh_store, snapshot, sign_failed, last_print, closed_data, headers>>

\* variant: each reconnect waits twice the delay a first reconnect does
Sleep_Backoff ==
    /\ pc = "closed"
    /\ pc' = "sign"
    /\ waited' = waited + 2 * ReconnectDelay
    /\ trail' = Append(trail, "sleep")
    /\ message' = NoFrame
    /\ before' = NoData
    /\ changed' = FALSE
    /\ rendered' = FALSE
    /\ redelivered' = FALSE
    /\ UNCHANGED <<current_data, spinner_index, spinner, displayed, subs, wire, iter,
                   expected, fresh_store, snapshot, sign_failed, last_print,
                   closed_data, headers>>

\* await asyncio.sleep(5) in either handler, then the next turn of while True
Sleep ==
    /\ pc = "closed"
    /\ pc' = "sign"
    /\ waited' = waited + ReconnectDelay
    /\ trail' = Append(trail, "sleep")
    /\ message' = NoFrame
    /\ before' = NoData
    /\ changed' = FALSE
    /\ rendered' = FALSE
    /\ redelivered' = FALSE
    /\ UNCHANGED <<current_data, spinner_index, spinner, displayed, subs, wire, iter, expected,
                   fresh_store, snapshot, sign_failed, last_print, closed_data, headers>>

\* KeyboardInterrupt while run() is suspended: main() exits with status 0 and
\* the reader is gone with the process
Interrupt ==
    /\ pc \in {"connect", "subscribe", "recv", "closed"}
    /\ pc' = "exit0"
    /\ current_data' = EmptyDict
    /\ spinner_index' = 0
    /\ spinner' = ""
    /\ displayed' = NoData
    /\ subs' = <<>>
    /\ wire' = <<>>
    /\ message' = NoFrame
    /\ before' = NoData
    /\ changed' = FALSE
    /\ rendered' = FALSE
    /\ redelivered' = FALSE
    /\ iter' = 0
    /\ expected' = EmptyDict
    /\ fresh_store' = TRUE
    /\ closed_data' = NoData
    /\ waited' = 0
    /\ trail' = <<>>
    /\ last_print' = "exiting"
    /\ headers' = NoHeaders
    /\ UNCHANGED <<snapshot, sign_failed>>

Next ==
    \/ FetchSignFail
    \/ FetchInitialData
    \/ DisplayContract
    \/ SignOk
    \/ SignFail
    \/ ConnectOk
    \/ ConnectFail
    \/ SubscribeSend
    \/ SubscribeFail
    \/ RecvMessage
    \/ RecvTimeout
    \/ RecvClosed
    \/ Spin
    \/ Sleep
    \/ Interrupt

Spec == Init /\ [][Next]_vars

\* asyncio gives every awaited call back: the sleep ends, sign_request,
\* websockets.connect (open_timeout) and ws.send return or raise, and the
\* code after an await runs on. Frames, timeouts and Ctrl+C are up to the
\* venue and the user and carry no fairness.
Fairness ==
    /\ WF_vars(FetchSignFail \/ FetchInitialData)
    /\ WF_vars(DisplayContract)
    /\ WF_vars(SignOk \/ SignFail)
    /\ WF_vars(ConnectOk \/ ConnectFail)
    /\ WF_vars(SubscribeSend \/ SubscribeFail)
    /\ WF_vars(Spin)
    /\ WF_vars(Sleep)

FairSpec == Spec /\ Fairness

\* ----------------------------------------------------------------- claims
\* an iteration received a frame and update_from_message ran on it
Applied == pc \in {"spin", "closed"} /\ message.kind \in {"object", "nonobject"}

\* C1: after any sequence of events applied to a store that started as
\* constructed, every field holds the value carried by the last event that
\* is addressed to the bound contract and carries the field, and is unset
\* when there is no such event.
C1_LastWriterWins ==
    fresh_store => \A k \in Fields : Get(current_data, k) = Get(expected, k)

\* C2: an event never turns a set field into null, and leaves every field it
\* does not carry as it was.
C2_NeverUnset ==
    Applied =>
        \A k \in Fields :
            /\ Get(before, k) # None => Get(current_data, k) # None
            /\ k \notin DOMAIN Carried(message) => Get(current_data, k) = Get(before, k)

\* the identifier an event embeds is missing or names another contract
Mismatch(m) ==
    m.kind = "object" /\ m.msg \in {"dict", "absent"} /\ EventId(m) # contract_id

\* C3: an event whose embedded contract identifier differs from the bound
\* one changes no field, reports no change and triggers no full render.
C3_ForeignNoOp ==
    (pc \in {"spin", "closed"} /\ Mismatch(message)) =>
        /\ pc = "spin"
        /\ current_data = before
        /\ ~changed
        /\ ~rendered

\* a foreign ticker whose yes_bid differs from the stored one went through
C3_Witness ==
    /\ pc = "spin"
    /\ Mismatch(message)
    /\ message.type = "ticker"
    /\ message.market_ticker = OtherId
    /\ Get(current_data, "yes_bid") \in Vals
    /\ Get(current_data, "yes_bid") # message.data["yes_bid"]

\* C4: the second of two applications in a row of one event reports no
\* change and leaves the store as the first left it; an application that
\* alters a field reports a change.
C4_Idempotent ==
    /\ redelivered => (pc = "spin" /\ current_data = before /\ ~changed /\ ~rendered)
    /\ (pc = "spin" /\ \E k \in Fields : Get(current_data, k) # Get(before, k)) => changed

\* a trade carrying price and volume was applied a second time
C4_Witness ==
    /\ pc = "spin"
    /\ redelivered
    /\ message.type = "trade"
    /\ Addressed(message)
    /\ DOMAIN message.data = {"yes_price", "volume"}
    /\ current_data["last_price"] = message.data["yes_price"]

\* the exit status of the process, None while it runs
ExitStatus ==
    IF pc = "exit0" THEN 0 ELSE IF pc \in {"exit1", "crash"} THEN 1 ELSE None

Reconnected == <<"sleep", "sign", "connect", "subscribe", "subscribe", "subscribe">>

\* C5: from the close of a session until the next session has handled its
\* first frame the store is what it was at the close, and the next session
\* starts listening only after the 5 second sleep, a new signature, a new
\* connection and the three subscriptions.
C5_StateRetained ==
    /\ closed_data # NoData => current_data = closed_data
    /\ (pc = "recv" /\ closed_data # NoData) =>
          /\ waited = ReconnectDelay
          /\ trail = Reconnected
          /\ Len(subs) = NumChannels

\* a session that applied yes_bid closed, and the next one is listening
C5_Witness ==
    /\ pc = "recv"
    /\ closed_data # NoData
    /\ iter > 0
    /\ Get(current_data, "yes_bid") = MaxVal
    /\ Get(current_data, "yes_ask") = None

\* C6: spinner_index has advanced once for every receive-loop iteration that
\* ended by timeout, by a frame that changed the store, by a frame that did
\* not, or by a frame that failed to parse.
C6_SpinnerEveryIteration == pc = "recv" => spinner_index = iter

\* C7: once signing has failed in the reconnect loop the process is at exit
\* status 1 and stays there: no handler, no sleep, no further attempt.
C7_SignFailureFatal == sign_failed => (pc = "exit1" /\ ExitStatus = 1)

\* signing failed at a reconnect, after the sleep that followed a close
C7_Witness ==
    /\ sign_failed
    /\ pc = "exit1"
    /\ closed_data # NoData
    /\ waited = ReconnectDelay

\* a frame that does not parse, or does not merge as a structured event
Malformed(m) ==
    \/ m.kind \in {"badjson", "nonobject"}
    \/ m.kind = "object" /\ m.type \in EventTypes /\ m.msg = "null"
    \/ /\ Addressed(m)
       /\ m.type = "orderbook_snapshot"
       /\ \/ m.yes # <<>> /\ ~WellFormed(m.yes)
          \/ m.no # <<>> /\ ~WellFormed(m.no)

\* C8: a malformed frame leaves the store and the display alone and the
\* session listening on the same connection.
C8_MalformedSkipped ==
    Malformed(message) =>
        /\ pc \in {"recv", "spin"}
        /\ current_data = before
        /\ ~rendered

SoftFailures == {"error", "non200", "bad_body", "market_null", "no_market"}

\* C9: after a failed snapshot no field is set, nothing was raised, and the
\* run goes on to the first render and to the signing of the first attempt.
C9_SnapshotSoftFailure ==
    snapshot.outcome \in SoftFailures =>
        /\ \A k \in Fields : Get(current_data, k) = None
        /\ pc \in {"display", "sign"}
        /\ pc = "sign" => displayed = current_data

\* C10: a parsed event triggers a full render exactly when some field's
\* value differs after the merge, unset and null counting as the same.
C10_RedrawExact ==
    (pc = "spin" /\ message.kind = "object") =>
        (rendered <=> \E k \in Fields : Get(current_data, k) # Get(before, k))

\* C11: wherever run() is suspended in ws.recv() or in the reconnect sleep,
\* every field drawn by the latest completed display_contract() has the value
\* the store holds for it.
C11_DisplayCurrent ==
    pc \in {"recv", "closed"} =>
        \A k \in Fields : Get(displayed, k) = Get(current_data, k)

\* a JSON object whose type tag is missing or names no event type
Unrecognized(m) == m.kind = "object" /\ m.type \notin EventTypes

\* C12: an event whose type tag is missing or not one of ticker,
\* orderbook_delta, orderbook_snapshot, trade, market alters no field,
\* reports no change, triggers no render and leaves the session listening.
C12_UnknownTypeNoOp ==
    (pc \in {"spin", "closed"} /\ Unrecognized(message)) =>
        /\ pc = "spin"
        /\ current_data = before
        /\ ~changed
        /\ ~rendered

\* an event without a type tag, addressed to the bound contract and carrying
\* a yes_bid other than the stored one, went through
C12_Witness ==
    /\ pc = "spin"
    /\ Unrecognized(message)
    /\ message.type = Absent
    /\ message.market_ticker = contract_id
    /\ Get(current_data, "yes_bid") \in Vals
    /\ Get(current_data, "yes_bid") # message.data["yes_bid"]

\* the phase that follows a phase of the indicator: | / - \ and round again
NextPhase(f) ==
    CASE f = "|" -> "/"
      [] f = "/" -> "-"
      [] f = "-" -> "\\"
      [] f = "\\" -> "|"
      [] OTHER -> f

\* the iteration under way ended in asyncio.TimeoutError
TimedOut == pc = "spin" /\ message = NoFrame

\* C13: an iteration that times out leaves every field and the drawn frame
\* as they were, renders nothing, moves the indicator to the next phase and
\* goes back to ws.recv() on the same connection with its subscriptions.
C13_TimeoutIteration ==
    /\ [](/\ \A i \in 0..(2 * SpinnerFrames) :
               get_spinner_frame(i + 1) = NextPhase(get_spinner_frame(i))
          /\ TimedOut => /\ current_data = before
                         /\ ~changed
                         /\ ~rendered
                         /\ Len(subs) = NumChannels)
    /\ [][TimedOut => /\ spinner' = NextPhase(spinner)
                      /\ spinner' # spinner
                      /\ spinner_index' = spinner_index + 1
                      /\ pc' = "recv"
                      /\ current_data' = current_data
                      /\ displayed' = displayed
                      /\ subs' = subs]_vars

\* a timeout in a session that has already drawn an update and advanced the
\* indicator
C13_Witness ==
    /\ TimedOut
    /\ spinner_index > 0
    /\ spinner = get_spinner_frame(spinner_index)
    /\ current_data # EmptyDict
    /\ displayed = current_data

\* sign_request has raised, in fetch_initial_data or in the reconnect loop
SignerFailed == sign_failed \/ snapshot = Unsigned

\* C14: wherever sign_request raises, the process ends with exit status 1
\* through the handler that prints the message about the private key.
C14_FatalKeyPath ==
    SignerFailed => (pc = "exit1" /\ ExitStatus = 1 /\ last_print = "sign_error")

ChannelsOfInterest == {"ticker", "orderbook_delta", "trade"}

\* C15: on an open connection the commands sent so far are subscribe
\* commands for the bound contract with request ids 1, 2, ... in order, one
\* per channel and no channel twice; no frame is read before all three are
\* out; the receive loop runs only with exactly the three of them sent; and
\* every new connection, the first one and each reconnect, starts with none.
C15_SubscribeProtocol ==
    /\ Len(subs) <= NumChannels
    /\ \A i \in 1..Len(subs) :
          /\ subs[i].id = i
          /\ subs[i].market_ticker = contract_id
          /\ subs[i].channel \in ChannelsOfInterest
          /\ \A j \in 1..Len(subs) : subs[j].channel = subs[i].channel => j = i
    /\ pc = "subscribe" => (Len(subs) < NumChannels /\ message = NoFrame)
    /\ pc \in {"recv", "spin"} =>
          {subs[i].channel : i \in 1..Len(subs)} = ChannelsOfInterest
    /\ pc \in {"start", "display", "sign", "connect", "closed"} => subs = <<>>

\* the session after a reconnect is listening with its three subscriptions
C15_Witness ==
    /\ pc = "recv"
    /\ closed_data # NoData
    /\ Len(subs) = NumChannels
    /\ subs[NumChannels].channel = "trade"
    /\ trail = Reconnected

\* C16: a connection attempt is entered only from the signing step of the
\* same turn of the loop, with headers that sign GET on the streaming path
\* and have gone out with no request before, neither an earlier attempt nor
\* the REST call; making the attempt uses them up.
C16_FreshAuth ==
    /\ [](pc = "connect" => headers = Headers("GET", WsPath))
    /\ [][pc' = "connect" => pc = "sign" /\ ~headers'.used]_vars
    /\ [][pc = "connect" /\ pc' \in {"subscribe", "closed"} =>
             headers' = Used(headers)]_vars

\* the attempt after a reconnect delay, with headers built after those of
\* the closed session were used
C16_Witness ==
    /\ pc = "connect"
    /\ closed_data # NoData
    /\ waited = ReconnectDelay
    /\ headers = Headers("GET", WsPath)
    /\ iter > 0

\* an order-book event for the bound contract was applied
OrderbookApplied ==
    /\ pc \in {"spin", "closed"}
    /\ Addressed(message)
    /\ message.type \in {"orderbook_delta", "orderbook_snapshot"}

\* C17: after an order-book event for the bound contract, yes_bid holds the
\* price the payload carries for side yes, no_bid the price it carries for
\* side no, and every field the payload carries no price for, the asks among
\* them, is exactly as it was.
C17_OrderbookAsymmetric ==
    OrderbookApplied =>
        /\ DOMAIN Carried(message) \subseteq {"yes_bid", "no_bid"}
        /\ \A k \in DOMAIN Carried(message) :
              Has(current_data, k) /\ current_data[k] = Carried(message)[k]
        /\ \A k \in Fields \ DOMAIN Carried(message) :
              /\ Has(current_data, k) = Has(before, k)
              /\ Get(current_data, k) = Get(before, k)

\* a delta for side no moved no_bid on a store that holds both asks
C17_Witness ==
    /\ pc = "spin"
    /\ OrderbookApplied
    /\ message.type = "orderbook_delta"
    /\ message.side = "no"
    /\ Get(before, "no_bid") \in Vals
    /\ Get(before, "no_bid") # message.data["price"]
    /\ current_data["no_bid"] = message.data["price"]
    /\ Get(current_data, "no_ask") \in Vals
    /\ Get(current_data, "yes_ask") \in Vals

\* a trade for the bound contract that carries its execution price was applied
TradeApplied ==
    /\ pc \in {"spin", "closed"}
    /\ Addressed(message)
    /\ message.type = "trade"
    /\ Has(message.data, "yes_price")

\* C18: after a trade for the bound contract, last_price is the trade's
\* price; volume is the payload's volume when it carries one and otherwise
\* what it was, unset when it was unset; every other field is as it was.
C18_TradeMerge ==
    TradeApplied =>
        /\ Get(current_data, "last_price") = message.data["yes_price"]
        /\ Has(message.data, "volume") => Get(current_data, "volume") = message.data["volume"]
        /\ ~Has(message.data, "volume") =>
              Get(current_data, "volume") = Get(before, "volume")
        /\ \A k \in Fields \ {"last_price", "volume"} :
              Get(current_data, k) = Get(before, k)

\* C19: a closed session is followed by one sleep of ReconnectDelay seconds
\* and the signing of the next attempt, whichever way and however often
\* sessions closed before; the receive loop is left only by a close or by
\* the interrupt; and, given Fairness, every close leads to a new connection
\* attempt unless the user interrupts or signing fails.
C19_RetryForever ==
    /\ [](/\ waited \in {0, ReconnectDelay}
          /\ pc = "closed" => waited = 0
          /\ (closed_data # NoData /\ pc \in {"sign", "connect", "subscribe"}) =>
                waited = ReconnectDelay)
    /\ [][pc = "closed" => \/ pc' = "sign" /\ waited' = ReconnectDelay
                           \/ pc' = "exit0"]_vars
    /\ [][(pc \in {"recv", "spin"}) => (pc' \in {"recv", "spin", "closed", "exit0"})]_vars
    /\ [][pc' = "closed" => (pc \in {"connect", "subscribe", "recv"})]_vars
    /\ (pc = "closed" ~> pc \in {"connect", "exit0", "exit1"})

\* a session that had listened was closed by an exception while a frame was
\* merged, and the sleep that follows has ended
C19_Witness ==
    /\ pc = "sign"
    /\ trail = <<"sleep">>
    /\ waited = ReconnectDelay
    /\ spinner_index > 0
    /\ Get(current_data, "yes_bid") # Get(displayed, "yes_bid")

KnownFields ==
    {"title", "status", "yes_bid", "yes_ask", "no_bid", "no_ask", "last_price",
     "volume", "open_interest"}

\* C20: while the answer to the REST call is HTTP 200 with a market object,
\* every known field of the store has the value the market object carries
\* for it and is null when it carries none; the REST request goes out from
\* the start of run() only, the run never returns there, and the first
\* signing for a connection finds the REST headers already used.
C20_SnapshotExtraction ==
    /\ [](snapshot.outcome = "ok" =>
             \A k \in KnownFields : Get(current_data, k) = Get(snapshot.market, k))
    /\ []((pc \in {"display", "sign"} /\ headers.path # WsPath) =>
             headers = Used(Headers("GET", RestPath)))
    /\ [][(headers'.path = RestPath /\ headers' # headers) => pc = "start"]_vars
    /\ [][pc # "start" => pc' # "start"]_vars

\* the answer carried title, status, yes_bid and yes_ask only
C20_Witness ==
    /\ pc = "display"
    /\ snapshot = Response("ok", ScenarioMarket)
    /\ current_data["yes_bid"] = 1
    /\ current_data["yes_ask"] = MaxVal
    /\ current_data["no_bid"] = None
    /\ current_data["volume"] = None

====
